---------------------------- MODULE Spec2Model ----------------------------
(***************************************************************************)
(* A model of live/query.py: the Query object that turns OSC datagrams     *)
(* into a synchronous query()/cmd() API.                                    *)
(*                                                                         *)
(* Caller threads run query() and cmd(); one server thread (the liblo      *)
(* backend's osc_server_read loop) runs handler() for every inbound        *)
(* message, one message at a time.  The code takes no lock, so the steps   *)
(* of query() and of handler() interleave at the granularity of the        *)
(* attribute reads and writes they perform; each such read or write is an  *)
(* action here.  Python objects that are shared by reference (the list     *)
(* behind query_rv, the threading.Event objects) live in heaps indexed by  *)
(* an object id.                                                           *)
(***************************************************************************)
EXTENDS Integers, Sequences, FiniteSets, TLC

\* ---------------------------------------------------------------- bounds
\* caller threads, numbered in the order of their first call
Threads == {1, 2}
\* operations begun in one run (query(), cmd(), add_handler(), an assignment
\* of a special callback, an inbound message): with both caller threads, and
\* with one caller thread
MaxOps == 3
MaxOpsOne == 4
\* calls of the accessor Query() begun in one run
MaxCalls == 4

None == "None"
BeatAddress == "/live/beat"
StartupAddress == "/remix/oscserver/startup"
TempoAddress == "/live/tempo"
\* addresses inbound messages arrive at
Addr == {TempoAddress, BeatAddress, StartupAddress}
\* addresses a caller passes as msg
Requests == {TempoAddress, BeatAddress}
\* the (msg, response_address) pairs a caller passes to query()
Calls == {<<TempoAddress, None>>, <<BeatAddress, None>>, <<TempoAddress, BeatAddress>>}
\* the argument tuple of the inbound message that is operation number k:
\* handler() looks into data only to pass data[0] to the beat callback, so a
\* tuple that tells the messages and the order of its elements apart is enough
Payload(k) == <<10 * k, 10 * k + 1>>
\* push callbacks a client registers; cb_raises raises when it is called
Callbacks == {"cb_ok", "cb_raises"}
BeatCallbacks == {"arity0", "arity1"}

VARIABLES
    handlers,            \* self.handlers: address -> list of callbacks
    beat_callback,       \* self.beat_callback
    startup_callback,    \* self.startup_callback
    osc_server_events,   \* self.osc_server_events: address -> Event id
    flags,               \* heap of threading.Event objects: id -> flag
    query_address,       \* self.query_address
    query_rv,            \* self.query_rv: id of a list object
    lists,               \* heap of list objects: id -> contents
    pc,                  \* per caller thread: position in query()
    msg,                 \* per caller thread: the msg argument
    resp,                \* per caller thread: local response_address
    wev,                 \* per caller thread: Event the thread waits on
    outcome,             \* per caller thread: how its last call ended
    hpc,                 \* server thread: position in handler()
    haddr,               \* handler(): address
    hdata,               \* handler(): data
    hidx,                \* handler(): position in the for loop
    hrv,                 \* handler(): list loaded by line 275
    \* ---- observations, read by no action's guard
    htag,                \* query id the inbound message replies to (0: none)
    invoked,             \* callbacks called for the current message
    special,             \* special callback call made for the message
    hraised,             \* exception that ended handler() for the message
    hmatched,            \* line 274 held for the message
    hreg,                \* line 266 held for the message
    hset,                \* Event the message set at line 276 (0: none)
    hspecial,            \* the message came at a special address whose callback was set
    hregd,               \* callbacks registered for the address when the message came
    sentTo,              \* per thread: address its cmd was sent to
    qid,                 \* per thread: number of its query
    seen,                \* per thread: messages handler() worked on during the query
    early,               \* per thread: one of them arrived before the send ended
    peers,               \* per thread: response addresses of the queries that overlapped its own
    replyAddr,           \* per query id: response address, once sent
    nops,                \* operations begun so far
    \* ---- the singleton accessor Query() (lines 54-60)
    instances,           \* instances[cls]: id of the stored object (0: cls not in instances)
    constructed,         \* number of times the constructor has run
    gpc,                 \* per thread: position in getinstance()
    gnew,                \* per thread: object cls(*args) gave it, not yet stored
    got,                 \* per thread: what its last Query() call gave it
    ncalls               \* calls of Query() begun so far

threadVars == <<pc, msg, resp, wev, outcome, sentTo, qid, seen, early, peers>>
serverVars == <<hpc, haddr, hdata, hidx, hrv, htag, invoked, special, hraised, hmatched,
                hreg, hset, hspecial, hregd>>
objVars == <<handlers, beat_callback, startup_callback, osc_server_events, flags,
             query_address, query_rv, lists>>
queryVars == <<threadVars, serverVars, objVars, replyAddr, nops>>
singVars == <<instances, constructed, gpc, gnew, got, ncalls>>
vars == <<queryVars, singVars>>

\* ------------------------------------------------------------- helpers
Raises(cb) == cb = "cb_raises"

\* lines 180 and 240: both failures raise the same exception class
SendError ==
    [type |-> "LiveConnectionError",
     msg |-> "Couldn't send message to Live (is LiveOSC present and activated?)"]

\* a timeout raised with the text of the send failure
TimeoutAsSendError == SendError

TimeoutError ==
    [type |-> "LiveConnectionError",
     msg |-> "Timed out waiting for response from LiveOSC. Is Live running and LiveOSC installed?"]

\* how a call of query() or cmd() ended: by raising err, or by returning
\* (query() returns the list object ref, whose contents were value then)
NoError == [type |-> "", msg |-> ""]
NoOutcome == [op |-> "", kind |-> "none", err |-> NoError, ref |-> 0, value |-> <<>>]
Raised(op, e) == [op |-> op, kind |-> "raised", err |-> e, ref |-> 0, value |-> <<>>]
Returned(ref, value) ==
    [op |-> "query", kind |-> "returned", err |-> NoError, ref |-> ref, value |-> value]
CmdReturned == [op |-> "cmd", kind |-> "returned", err |-> NoError, ref |-> 0, value |-> <<>>]

\* lines 209-213
ResponseAddress(m, r) == IF r # None THEN r ELSE m

\* line 274
Matches(address) == address = query_address

\* line 275: list += data extends the list object in place
Extend(old, data) == old \o data

\* line 276: Event.set()
SetFlag(f, e) == [f EXCEPT ![e] = TRUE]

\* line 233: wait(timeout) returns True once the Event has been set
Signalled(e) == flags[e]

\* a wait without a timeout: it never gives up
WaitForever(e) == FALSE

\* lines 232-235: with the Event not set, wait(timeout) returns False when the
\* timeout (line 130, or the timeout keyword) has run out
WaitExpires(e) == ~flags[e]

InFlight(t) == pc[t] # "idle"
\* positions of handler() from which the message can still be correlated
PreSet == {"handlers", "check", "load", "extend", "store", "set"}
\* positions of query() before cmd() has returned
PreSend == {"q225", "q226", "q227"}

RECURSIVE Flatten(_)
Flatten(ss) == IF ss = <<>> THEN <<>> ELSE Head(ss).data \o Flatten(Tail(ss))

\* what a call of Query() gave its caller: nothing yet, an object, or the
\* exception of a constructor that failed
NoInstance == [kind |-> "none", obj |-> 0]
Instance(o) == [kind |-> "returned", obj |-> o]
ConstructorRaised == [kind |-> "raised", obj |-> 0]

\* ---------------------------------------------------------------- Init
Init ==
    /\ handlers = <<>>
    /\ beat_callback = None
    /\ startup_callback = None
    /\ osc_server_events = <<>>
    /\ flags = <<>>
    /\ query_address = None
    /\ lists = << <<>> >>
    /\ query_rv = 1
    /\ pc = [t \in Threads |-> "idle"]
    /\ msg = [t \in Threads |-> None]
    /\ resp = [t \in Threads |-> None]
    /\ wev = [t \in Threads |-> 0]
    /\ outcome = [t \in Threads |-> NoOutcome]
    /\ sentTo = [t \in Threads |-> None]
    /\ qid = [t \in Threads |-> 0]
    /\ seen = [t \in Threads |-> <<>>]
    /\ early = [t \in Threads |-> FALSE]
    /\ peers = [t \in Threads |-> {}]
    /\ hpc = "idle"
    /\ haddr = None
    /\ hdata = <<>>
    /\ hidx = 0
    /\ hrv = 0
    /\ htag = 0
    /\ invoked = <<>>
    /\ special = <<>>
    /\ hraised = None
    /\ hmatched = FALSE
    /\ hreg = FALSE
    /\ hset = 0
    /\ hspecial = FALSE
    /\ hregd = <<>>
    /\ replyAddr = <<>>
    /\ nops = 0
    /\ instances = 0
    /\ constructed = 0
    /\ gpc = [t \in Threads |-> "idle"]
    /\ gnew = [t \in Threads |-> 0]
    /\ got = [t \in Threads |-> NoInstance]
    /\ ncalls = 0

\* ------------------------------------------------------------- query()
\* lines 209-219: resolve the response address, install a new Event
QueryStart(t, m, r) ==
    /\ pc[t] = "idle"
    /\ nops' = nops + 1
    /\ LET ra == ResponseAddress(m, r)
           e == Len(flags) + 1
           pending == hpc \in PreSet
       IN /\ flags' = Append(flags, FALSE)
          /\ osc_server_events' =
                [a \in DOMAIN osc_server_events \cup {ra} |->
                    IF a = ra THEN e ELSE osc_server_events[a]]
          /\ resp' = [resp EXCEPT ![t] = ra]
          /\ seen' = [seen EXCEPT ![t] =
                IF pending THEN <<[addr |-> haddr, data |-> hdata, tag |-> htag]>>
                ELSE <<>>]
          /\ early' = [early EXCEPT ![t] = pending]
    /\ msg' = [msg EXCEPT ![t] = m]
    /\ pc' = [pc EXCEPT ![t] = "q225"]
    /\ wev' = [wev EXCEPT ![t] = 0]
    /\ outcome' = [outcome EXCEPT ![t] = NoOutcome]
    /\ sentTo' = [sentTo EXCEPT ![t] = None]
    /\ replyAddr' = Append(replyAddr, None)
    /\ qid' = [qid EXCEPT ![t] = Len(replyAddr) + 1]
    /\ peers' = [u \in Threads |->
                   IF u = t THEN {resp[v] : v \in {w \in Threads \ {t} : InFlight(w)}}
                   ELSE IF InFlight(u) THEN peers[u] \cup {ResponseAddress(m, r)}
                   ELSE peers[u]]
    /\ UNCHANGED <<serverVars, handlers, beat_callback, startup_callback,
                   query_address, query_rv, lists>>
    /\ UNCHANGED singVars

\* line 225
SetQueryAddress(t) ==
    /\ pc[t] = "q225"
    /\ query_address' = resp[t]
    /\ pc' = [pc EXCEPT ![t] = "q226"]
    /\ UNCHANGED <<msg, resp, wev, outcome, sentTo, qid, seen, early, peers,
                   serverVars, handlers, beat_callback, startup_callback,
                   osc_server_events, flags, query_rv, lists, replyAddr, nops>>
    /\ UNCHANGED singVars

\* line 226: a new, empty list object
ResetQueryRv(t) ==
    /\ pc[t] = "q226"
    /\ lists' = Append(lists, <<>>)
    /\ query_rv' = Len(lists) + 1
    /\ pc' = [pc EXCEPT ![t] = "q227"]
    /\ UNCHANGED <<msg, resp, wev, outcome, sentTo, qid, seen, early, peers,
                   serverVars, handlers, beat_callback, startup_callback,
                   osc_server_events, flags, query_address, replyAddr, nops>>
    /\ UNCHANGED singVars

\* line 227, cmd() returning: the message went out to msg
QuerySend(t) ==
    /\ pc[t] = "q227"
    /\ sentTo' = [sentTo EXCEPT ![t] = msg[t]]
    /\ replyAddr' = [replyAddr EXCEPT ![qid[t]] = resp[t]]
    /\ pc' = [pc EXCEPT ![t] = "q233"]
    /\ UNCHANGED <<msg, resp, wev, outcome, qid, seen, early, peers,
                   serverVars, objVars, nops>>
    /\ UNCHANGED singVars

\* line 227, cmd() raising (lines 178-180): query() ends there
QuerySendFails(t) ==
    /\ pc[t] = "q227"
    /\ outcome' = [outcome EXCEPT ![t] = Raised("query", SendError)]
    /\ pc' = [pc EXCEPT ![t] = "idle"]
    /\ UNCHANGED <<msg, resp, wev, sentTo, qid, seen, early, peers,
                   serverVars, objVars, replyAddr, nops>>
    /\ UNCHANGED singVars

\* line 233: self.osc_server_events[response_address] is read again
LookupEvent(t) ==
    /\ pc[t] = "q233"
    /\ wev' = [wev EXCEPT ![t] = osc_server_events[resp[t]]]
    /\ pc' = [pc EXCEPT ![t] = "wait"]
    /\ UNCHANGED <<msg, resp, outcome, sentTo, qid, seen, early, peers,
                   serverVars, objVars, replyAddr, nops>>
    /\ UNCHANGED singVars

\* line 233: wait() returns True
WaitReturns(t) ==
    /\ pc[t] = "wait"
    /\ Signalled(wev[t])
    /\ pc' = [pc EXCEPT ![t] = "q242"]
    /\ UNCHANGED <<msg, resp, wev, outcome, sentTo, qid, seen, early, peers,
                   serverVars, objVars, replyAddr, nops>>
    /\ UNCHANGED singVars

\* lines 233-240: wait() returns False after the timeout
WaitTimesOut(t) ==
    /\ pc[t] = "wait"
    /\ WaitExpires(wev[t])
    /\ outcome' = [outcome EXCEPT ![t] = Raised("query", TimeoutError)]
    /\ pc' = [pc EXCEPT ![t] = "idle"]
    /\ UNCHANGED <<msg, resp, wev, sentTo, qid, seen, early, peers,
                   serverVars, objVars, replyAddr, nops>>
    /\ UNCHANGED singVars

\* a query() that deletes its Event from the table before it returns, and
\* leaves query_address as it is
QueryReturnsAndRemoves(t) ==
    /\ pc[t] = "q242"
    /\ outcome' = [outcome EXCEPT ![t] = Returned(query_rv, lists[query_rv])]
    /\ osc_server_events' =
          [a \in DOMAIN osc_server_events \ {resp[t]} |-> osc_server_events[a]]
    /\ pc' = [pc EXCEPT ![t] = "idle"]
    /\ UNCHANGED <<msg, resp, wev, sentTo, qid, seen, early, peers,
                   serverVars, handlers, beat_callback, startup_callback, flags,
                   query_address, query_rv, lists, replyAddr, nops>>
    /\ UNCHANGED singVars

\* line 242: return self.query_rv, the list object itself
QueryReturns(t) ==
    /\ pc[t] = "q242"
    /\ outcome' = [outcome EXCEPT ![t] = Returned(query_rv, lists[query_rv])]
    /\ pc' = [pc EXCEPT ![t] = "idle"]
    /\ UNCHANGED <<msg, resp, wev, sentTo, qid, seen, early, peers,
                   serverVars, objVars, replyAddr, nops>>
    /\ UNCHANGED singVars

\* --------------------------------------------------------------- cmd()
\* a cmd() that registers its address as the pending response address, as
\* query() does
CmdInstalls(t, m) ==
    /\ pc[t] = "idle"
    /\ nops' = nops + 1
    /\ query_address' = m
    /\ \/ outcome' = [outcome EXCEPT ![t] = CmdReturned]
       \/ outcome' = [outcome EXCEPT ![t] = Raised("cmd", SendError)]
    /\ UNCHANGED <<pc, msg, resp, wev, sentTo, qid, seen, early, peers,
                   serverVars, handlers, beat_callback, startup_callback,
                   osc_server_events, flags, query_rv, lists, replyAddr>>
    /\ UNCHANGED singVars

\* lines 158-180, called on its own: the send succeeds or raises
Cmd(t, m) ==
    /\ pc[t] = "idle"
    /\ nops' = nops + 1
    /\ \/ outcome' = [outcome EXCEPT ![t] = CmdReturned]
       \/ outcome' = [outcome EXCEPT ![t] = Raised("cmd", SendError)]
    /\ UNCHANGED <<pc, msg, resp, wev, sentTo, qid, seen, early, peers,
                   serverVars, objVars, replyAddr>>
    /\ UNCHANGED singVars

\* ------------------------------------------------------------ handler()
\* lines 260-266: the server thread enters handler() with the next message.
\* tag names the query the remote sent the message in reply to (0: none);
\* the code never sees it.
Receive(address, data, tag) ==
    /\ hpc = "idle"
    /\ tag = 0 \/ (tag \in 1..Len(replyAddr) /\ replyAddr[tag] = address)
    /\ nops' = nops + 1
    /\ haddr' = address
    /\ hdata' = data
    /\ htag' = tag
    /\ hidx' = 1
    /\ hrv' = 0
    /\ invoked' = <<>>
    /\ special' = <<>>
    /\ hraised' = None
    /\ hmatched' = FALSE
    /\ hreg' = (address \in DOMAIN handlers)
    /\ hset' = 0
    /\ hspecial' = (\/ (address = BeatAddress /\ beat_callback # None)
                    \/ (address = StartupAddress /\ startup_callback # None))
    /\ hregd' = IF address \in DOMAIN handlers THEN handlers[address] ELSE <<>>
    /\ hpc' = IF address \in DOMAIN handlers THEN "handlers" ELSE "check"
    /\ seen' = [t \in Threads |->
                  IF InFlight(t)
                  THEN Append(seen[t], [addr |-> address, data |-> data, tag |-> tag])
                  ELSE seen[t]]
    /\ early' = [t \in Threads |-> early[t] \/ (InFlight(t) /\ pc[t] \in PreSend)]
    /\ UNCHANGED <<pc, msg, resp, wev, outcome, sentTo, qid, peers,
                   objVars, replyAddr>>
    /\ UNCHANGED singVars

\* a raising callback that ends the loop only: handler() goes on to line 274
SkipToCorrelation == "check"

\* where handler() is after a callback has raised: nothing catches the
\* exception (line 268), so handler() is left
AfterRaise == "idle"

\* lines 267-268: the next callback of the list is called
CallHandler ==
    /\ hpc = "handlers"
    /\ hidx <= Len(handlers[haddr])
    /\ LET cb == handlers[haddr][hidx]
       IN /\ invoked' = Append(invoked, cb)
          /\ IF Raises(cb)
             THEN /\ hraised' = "callback"
                  /\ hpc' = AfterRaise
                  /\ hidx' = IF AfterRaise = "idle" THEN 0 ELSE hidx + 1
             ELSE /\ hidx' = hidx + 1
                  /\ UNCHANGED <<hraised, hpc>>
    /\ UNCHANGED <<threadVars, objVars, haddr, hdata, hrv, htag, special, hmatched,
                   hreg, hset, hspecial, hregd, replyAddr, nops>>
    /\ UNCHANGED singVars

\* line 267: the list is exhausted
HandlersDone ==
    /\ hpc = "handlers"
    /\ hidx > Len(handlers[haddr])
    /\ hpc' = "check"
    /\ UNCHANGED <<threadVars, objVars, haddr, hdata, hidx, hrv, htag, invoked, special,
                   hraised, hmatched, hreg, hset, hspecial, hregd, replyAddr, nops>>
    /\ UNCHANGED singVars

\* line 274
CheckAddress ==
    /\ hpc = "check"
    /\ hmatched' = Matches(haddr)
    /\ hpc' = IF Matches(haddr) THEN "load" ELSE "special"
    /\ UNCHANGED <<threadVars, objVars, haddr, hdata, hidx, hrv, htag, invoked, special,
                   hraised, hreg, hset, hspecial, hregd, replyAddr, nops>>
    /\ UNCHANGED singVars

\* line 275, self.query_rv += data: the attribute is read,
LoadRv ==
    /\ hpc = "load"
    /\ hrv' = query_rv
    /\ hpc' = "extend"
    /\ UNCHANGED <<threadVars, objVars, haddr, hdata, hidx, htag, invoked, special,
                   hraised, hmatched, hreg, hset, hspecial, hregd, replyAddr, nops>>
    /\ UNCHANGED singVars

\* the list object it held is extended in place,
ExtendRv ==
    /\ hpc = "extend"
    /\ lists' = [lists EXCEPT ![hrv] = Extend(@, hdata)]
    /\ hpc' = "store"
    /\ UNCHANGED <<threadVars, haddr, hdata, hidx, hrv, htag, invoked, special,
                   hraised, hmatched, hreg, hset, hspecial, hregd, handlers,
                   beat_callback,
                   startup_callback, osc_server_events, flags, query_address, query_rv,
                   replyAddr, nops>>
    /\ UNCHANGED singVars

\* and the attribute is written back
StoreRv ==
    /\ hpc = "store"
    /\ query_rv' = hrv
    /\ hpc' = "set"
    /\ UNCHANGED <<threadVars, haddr, hdata, hidx, hrv, htag, invoked, special,
                   hraised, hmatched, hreg, hset, hspecial, hregd, handlers,
                   beat_callback,
                   startup_callback, osc_server_events, flags, query_address, lists,
                   replyAddr, nops>>
    /\ UNCHANGED singVars

\* where handler() is after line 276: line 277 returns
\* handler() without the return of line 277: it falls through to the special
\* addresses
FallThrough == "special"

AfterCorrelation == "idle"

\* lines 276-277: the Event now stored under the address is set
SetEvent ==
    /\ hpc = "set"
    /\ IF haddr \in DOMAIN osc_server_events
       THEN /\ flags' = SetFlag(flags, osc_server_events[haddr])
            /\ hset' = osc_server_events[haddr]
            /\ hpc' = AfterCorrelation
            /\ UNCHANGED hraised
       ELSE /\ hraised' = "KeyError"
            /\ hpc' = "idle"
            /\ UNCHANGED <<flags, hset>>
    /\ hidx' = 0
    /\ hrv' = 0
    /\ UNCHANGED <<threadVars, haddr, hdata, htag, invoked, special,
                   hmatched, hreg, hspecial, hregd, handlers,
                   beat_callback, startup_callback,
                   osc_server_events, query_address, query_rv, lists,
                   replyAddr, nops>>
    /\ UNCHANGED singVars

\* lines 288-300: the call the beat callback receives, by its arity
BeatCall(cb, data) ==
    IF cb = "arity1" THEN <<"beat_callback", data[1]>> ELSE <<"beat_callback">>

\* lines 279-300
HandlerBeat ==
    /\ hpc = "special"
    /\ haddr = BeatAddress
    /\ special' = IF beat_callback # None THEN BeatCall(beat_callback, hdata) ELSE <<>>
    /\ hpc' = "idle"
    /\ hidx' = 0
    /\ hrv' = 0
    /\ UNCHANGED <<threadVars, objVars, haddr, hdata, htag, invoked,
                   hraised, hmatched, hreg, hset, hspecial, hregd, replyAddr, nops>>
    /\ UNCHANGED singVars

\* lines 302-304
HandlerStartup ==
    /\ hpc = "special"
    /\ haddr # BeatAddress
    /\ haddr = StartupAddress
    /\ special' = IF startup_callback # None THEN <<"startup_callback">> ELSE <<>>
    /\ hpc' = "idle"
    /\ hidx' = 0
    /\ hrv' = 0
    /\ UNCHANGED <<threadVars, objVars, haddr, hdata, htag, invoked,
                   hraised, hmatched, hreg, hset, hspecial, hregd, replyAddr, nops>>
    /\ UNCHANGED singVars

\* line 302 false: handler() ends
HandlerOther ==
    /\ hpc = "special"
    /\ haddr # BeatAddress
    /\ haddr # StartupAddress
    /\ hpc' = "idle"
    /\ hidx' = 0
    /\ hrv' = 0
    /\ UNCHANGED <<threadVars, objVars, haddr, hdata, htag, invoked, special,
                   hraised, hmatched, hreg, hset, hspecial, hregd, replyAddr, nops>>
    /\ UNCHANGED singVars

\* ------------------------------------------------------- registrations
\* lines 306-309
AddHandler(address, handler) ==
    /\ nops' = nops + 1
    /\ handlers' =
          [a \in DOMAIN handlers \cup {address} |->
              IF a = address
              THEN Append(IF a \in DOMAIN handlers THEN handlers[a] ELSE <<>>, handler)
              ELSE handlers[a]]
    /\ UNCHANGED <<threadVars, serverVars, beat_callback, startup_callback,
                   osc_server_events, flags, query_address, query_rv, lists,
                   replyAddr>>
    /\ UNCHANGED singVars

\* a client assigns the beat_callback attribute, None since line 87
SetBeatCallback(cb) ==
    /\ beat_callback = None
    /\ nops' = nops + 1
    /\ beat_callback' = cb
    /\ UNCHANGED <<threadVars, serverVars, handlers, startup_callback,
                   osc_server_events, flags, query_address, query_rv, lists,
                   replyAddr>>
    /\ UNCHANGED singVars

\* a client assigns the startup_callback attribute, None since line 88
SetStartupCallback ==
    /\ startup_callback = None
    /\ nops' = nops + 1
    /\ startup_callback' = "startup_cb"
    /\ UNCHANGED <<threadVars, serverVars, handlers, beat_callback,
                   osc_server_events, flags, query_address, query_rv, lists,
                   replyAddr>>
    /\ UNCHANGED singVars

\* ------------------------------------------------- singleton, Query()
\* a thread calls Query(), that is getinstance() of line 56
GetInstance(t) ==
    /\ gpc[t] = "idle"
    /\ ncalls' = ncalls + 1
    /\ gpc' = [gpc EXCEPT ![t] = "g57"]
    /\ UNCHANGED <<instances, constructed, gnew, got, queryVars>>

\* line 57: if cls not in instances
CheckInstances(t) ==
    /\ gpc[t] = "g57"
    /\ gpc' = [gpc EXCEPT ![t] = IF instances = 0 THEN "g58" ELSE "g59"]
    /\ UNCHANGED <<instances, constructed, gnew, got, ncalls, queryVars>>

\* line 58, right-hand side: cls(*args) runs the constructor (lines 86-137)
Construct(t) ==
    /\ gpc[t] = "g58"
    /\ constructed' = constructed + 1
    /\ gnew' = [gnew EXCEPT ![t] = constructed + 1]
    /\ gpc' = [gpc EXCEPT ![t] = "g58store"]
    /\ UNCHANGED <<instances, got, ncalls, queryVars>>

\* line 58, right-hand side, with an object already constructed: the
\* constructor runs and opens the listen port again (lines 98, 121), which
\* the first object holds; the backend may refuse it, and Query() raises
ConstructFails(t) ==
    /\ gpc[t] = "g58"
    /\ constructed >= 1
    /\ constructed' = constructed + 1
    /\ got' = [got EXCEPT ![t] = ConstructorRaised]
    /\ gpc' = [gpc EXCEPT ![t] = "idle"]
    /\ UNCHANGED <<instances, gnew, ncalls, queryVars>>

\* line 58, the assignment instances[cls] = ...
StoreInstance(t) ==
    /\ gpc[t] = "g58store"
    /\ instances' = gnew[t]
    /\ gnew' = [gnew EXCEPT ![t] = 0]
    /\ gpc' = [gpc EXCEPT ![t] = "g59"]
    /\ UNCHANGED <<constructed, got, ncalls, queryVars>>

\* line 59: return instances[cls]
ReturnInstance(t) ==
    /\ gpc[t] = "g59"
    /\ got' = [got EXCEPT ![t] = Instance(instances)]
    /\ gpc' = [gpc EXCEPT ![t] = "idle"]
    /\ UNCHANGED <<instances, constructed, gnew, ncalls, queryVars>>

\* the threads that call Query()
Getters == Threads

\* ---------------------------------------------------------------- Next
\* the steps of query() a thread takes once it has started one
Progress(t) ==
    \/ SetQueryAddress(t)
    \/ ResetQueryRv(t)
    \/ QuerySend(t)
    \/ QuerySendFails(t)
    \/ LookupEvent(t)
    \/ WaitReturns(t)
    \/ WaitTimesOut(t)
    \/ QueryReturns(t)

\* the steps of handler() the server thread takes once it has entered it
Dispatch ==
    \/ CallHandler
    \/ HandlersDone
    \/ CheckAddress
    \/ LoadRv
    \/ ExtendRv
    \/ StoreRv
    \/ SetEvent
    \/ HandlerBeat
    \/ HandlerStartup
    \/ HandlerOther

\* the threads are alike: thread t makes its first call after the threads
\* numbered below it have made theirs
HasCalled(t) == InFlight(t) \/ outcome[t] # NoOutcome
InOrder(t) == \A u \in Threads : u < t => HasCalled(u)

\* fewer than budget operations have begun
CanBegin(budget) == nops < budget

Next ==
    \/ \E t \in Threads, c \in Calls :
          CanBegin(MaxOps) /\ InOrder(t) /\ QueryStart(t, c[1], c[2])
    \/ \E t \in Threads, m \in Requests : CanBegin(MaxOps) /\ InOrder(t) /\ Cmd(t, m)
    \/ \E a \in Addr, g \in 0..MaxOps :
          CanBegin(MaxOps) /\ Receive(a, Payload(nops + 1), g)
    \/ \E a \in Addr, h \in Callbacks : CanBegin(MaxOps) /\ AddHandler(a, h)
    \/ \E cb \in BeatCallbacks : CanBegin(MaxOps) /\ SetBeatCallback(cb)
    \/ CanBegin(MaxOps) /\ SetStartupCallback
    \/ \E t \in Threads : Progress(t)
    \/ Dispatch

Spec == Init /\ [][Next]_vars

\* one caller thread, the server thread and the client
NextOne ==
    \/ \E c \in Calls : CanBegin(MaxOpsOne) /\ QueryStart(1, c[1], c[2])
    \/ \E m \in Requests : CanBegin(MaxOpsOne) /\ Cmd(1, m)
    \/ \E a \in Addr, g \in 0..MaxOpsOne :
          CanBegin(MaxOpsOne) /\ Receive(a, Payload(nops + 1), g)
    \/ \E a \in Addr, h \in Callbacks : CanBegin(MaxOpsOne) /\ AddHandler(a, h)
    \/ \E cb \in BeatCallbacks : CanBegin(MaxOpsOne) /\ SetBeatCallback(cb)
    \/ CanBegin(MaxOpsOne) /\ SetStartupCallback
    \/ Progress(1)
    \/ Dispatch

SpecOne == Init /\ [][NextOne]_vars

\* the threads that call the accessor Query(), and nothing else
NextSingleton ==
    \/ \E t \in Getters : ncalls < MaxCalls /\ GetInstance(t)
    \/ \E t \in Getters : CheckInstances(t)
    \/ \E t \in Getters : Construct(t)
    \/ \E t \in Getters : ConstructFails(t)
    \/ \E t \in Getters : StoreInstance(t)
    \/ \E t \in Getters : ReturnInstance(t)

SpecSingleton == Init /\ [][NextSingleton]_vars

\* the scheduler runs every thread that can run, and a timed wait ends
FairSpec == Spec /\ \A t \in Threads : WF_vars(Progress(t))

\* ============================================================== claims
ElementsOf(seq) == {seq[i] : i \in DOMAIN seq}

\* thread t's last call was a query(), which has ended
Done(t) == pc[t] = "idle" /\ outcome[t].op = "query"
ReturnedOk(t) == Done(t) /\ outcome[t].kind = "returned"

\* the messages among those that arrived at thread t's response address
AtResp(t) == SelectSeq(seen[t], LAMBDA m : m.addr = resp[t])

\* the query of thread t overlapped no other query, and handler() worked on
\* exactly one message during it, which arrived at its response address after
\* its command had been sent
OneReply(t) ==
    /\ peers[t] = {}
    /\ Len(seen[t]) = 1
    /\ seen[t][1].addr = resp[t]
    /\ ~early[t]

\* the server thread has finished with every message it received
Dispatched == hpc = "idle"

(***************************************************************************)
(* C1: a query that runs alone and has exactly one message (A, V)          *)
(* dispatched at its response address A while it waits returns exactly V:  *)
(* once the message has been dispatched the Event it waits on is set, so   *)
(* the wait cannot time out, and the list it returns is V.                 *)
(***************************************************************************)
C1_RoundTrip ==
    \A t \in Threads :
        OneReply(t) =>
            /\ (pc[t] = "wait" /\ Dispatched) => Signalled(wev[t])
            /\ ReturnedOk(t) => outcome[t].value = seen[t][1].data

\* no callback registered for the address raises
NoRaiser(address) ==
    address \in DOMAIN handlers => \A cb \in ElementsOf(handlers[address]) : ~Raises(cb)

\* the same where no callback registered for A raises: this much holds
C1_RoundTripUnlessRaised ==
    \A t \in Threads :
        (OneReply(t) /\ NoRaiser(resp[t])) =>
            /\ (pc[t] = "wait" /\ Dispatched) => Signalled(wev[t])
            /\ ReturnedOk(t) => outcome[t].value = seen[t][1].data

\* the query of thread t overlapped a query on another response address and
\* none on its own, and the one message that arrived at its address during it
\* is the reply to it
OwnReplyBesideOther(t) ==
    /\ peers[t] # {}
    /\ resp[t] \notin peers[t]
    /\ Len(AtResp(t)) = 1
    /\ AtResp(t)[1].tag = qid[t]

(***************************************************************************)
(* C2: of two queries that overlap on different response addresses, each   *)
(* returns the arguments of the reply at its own address: once its reply   *)
(* has been dispatched its wait cannot time out, and it returns the        *)
(* reply's arguments.                                                      *)
(***************************************************************************)
C2_ConcurrentQueries ==
    \A t \in Threads :
        OwnReplyBesideOther(t) =>
            /\ (pc[t] = "wait" /\ Dispatched) => Signalled(wev[t])
            /\ ReturnedOk(t) => outcome[t].value = AtResp(t)[1].data

(***************************************************************************)
(* C3: every call of query() ends, by returning or by raising: a thread    *)
(* that is inside query() is eventually outside it.                        *)
(***************************************************************************)
C3_QueryTerminates == \A t \in Threads : InFlight(t) ~> ~InFlight(t)

\* a query that handler() received no message during has ended
C3_EndedUnanswered ==
    \E t \in Threads :
        Done(t) /\ seen[t] = <<>> /\ sentTo[t] # None /\ outcome[t].kind = "raised"

\* thread t's query sent its command and no message at its response address
\* was worked on during it
Unanswered(t) == Done(t) /\ sentTo[t] # None /\ AtResp(t) = <<>>

RepliedValues(t) == UNION {ElementsOf(m.data) : m \in ElementsOf(AtResp(t))}

(***************************************************************************)
(* C5: a query with a response address other than the address it sends to, *)
(* overlapping no other query: the command goes to the request address,    *)
(* only a message at the response address sets the Event it waits on, and  *)
(* only such messages put values into the list it accumulates and returns. *)
(***************************************************************************)
C5_OnlyResponseAddress ==
    \A t \in Threads :
        ((InFlight(t) \/ Done(t)) /\ msg[t] # resp[t] /\ peers[t] = {}) =>
            /\ sentTo[t] \in {None, msg[t]}
            /\ (pc[t] \in {"wait", "q242"} /\ Signalled(wev[t])) => AtResp(t) # <<>>
            /\ pc[t] \in {"q227", "q233", "wait", "q242"} =>
                  ElementsOf(lists[query_rv]) \subseteq RepliedValues(t)
            /\ ReturnedOk(t) => ElementsOf(outcome[t].value) \subseteq RepliedValues(t)

\* the same for a query during which no message arrived before its command
\* had been sent: this much holds
C5_UnlessEarly ==
    \A t \in Threads :
        ((InFlight(t) \/ Done(t)) /\ msg[t] # resp[t] /\ peers[t] = {} /\ ~early[t]) =>
            /\ sentTo[t] \in {None, msg[t]}
            /\ (pc[t] \in {"wait", "q242"} /\ Signalled(wev[t])) => AtResp(t) # <<>>
            /\ pc[t] \in {"q227", "q233", "wait", "q242"} =>
                  ElementsOf(lists[query_rv]) \subseteq RepliedValues(t)
            /\ ReturnedOk(t) => ElementsOf(outcome[t].value) \subseteq RepliedValues(t)

IsPrefix(a, b) == Len(a) <= Len(b) /\ SubSeq(b, 1, Len(a)) = a

(***************************************************************************)
(* C6: when handler() leaves the loop over the callbacks registered for    *)
(* the message's address it has called each of them once, in registration  *)
(* order; and no step removes or reorders a registered callback.           *)
(***************************************************************************)
C6_AllHandlersInOrder ==
    [][/\ (hpc = "handlers" /\ hpc' # "handlers") => invoked' = handlers[haddr]
       /\ \A a \in DOMAIN handlers :
             a \in DOMAIN handlers' /\ IsPrefix(handlers[a], handlers'[a])]_vars

\* the same where no registered callback raises: this much holds
C6_UnlessRaised ==
    [][/\ (hpc = "handlers" /\ hpc' # "handlers" /\ NoRaiser(haddr)) =>
             invoked' = handlers[haddr]
       /\ \A a \in DOMAIN handlers :
             a \in DOMAIN handlers' /\ IsPrefix(handlers[a], handlers'[a])]_vars

(***************************************************************************)
(* C7: a callback that raises does not end the dispatch of the message:    *)
(* after the call that raised, handler() is still in its loop, from where  *)
(* the remaining callbacks and the correlation step run.                   *)
(***************************************************************************)
C7_RaiseIsIsolated ==
    [][(hpc = "handlers" /\ invoked' # invoked /\ hraised' = "callback") =>
           hpc' = "handlers"]_vars

C9_NoCrossTalk ==
    \A t \in Threads :
        (ReturnedOk(t) /\ peers[t] = {}) =>
            \A m \in ElementsOf(AtResp(t)) :
                m.tag \in 1..(qid[t] - 1) =>
                    ElementsOf(m.data) \cap ElementsOf(outcome[t].value) = {}

\* thread t's query is the last one begun, and no query is in flight
LastQuery(t) == \A u \in Threads : ~InFlight(u) /\ qid[u] <= qid[t]

(***************************************************************************)
(* C10: a query whose send failed raised the send error without waiting,   *)
(* and left no pending entry: its response address is not the pending      *)
(* response address and has no Event in the table.                         *)
(***************************************************************************)
C10_SendFailureCleansUp ==
    \A t \in Threads :
        (Done(t) /\ outcome[t] = Raised("query", SendError) /\ LastQuery(t)) =>
            /\ wev[t] = 0
            /\ query_address # resp[t]
            /\ resp[t] \notin DOMAIN osc_server_events

\* the queries of threads t and u overlapped on one response address
SameAddressOverlap(t, u) ==
    /\ t # u
    /\ resp[t] = resp[u]
    /\ resp[u] \in peers[t]
    /\ resp[t] \in peers[u]

(***************************************************************************)
(* C11: one signal releases one waiting query: two queries that overlapped *)
(* on one response address and both returned successfully were released    *)
(* by different messages, so at least two messages arrived at the address  *)
(* during them.                                                            *)
(***************************************************************************)
C11_OneWakePerSignal ==
    \A t, u \in Threads :
        (SameAddressOverlap(t, u) /\ ReturnedOk(t) /\ ReturnedOk(u)) =>
            Cardinality(ElementsOf(AtResp(t)) \cup ElementsOf(AtResp(u))) >= 2

\* thread t's query runs alone, and every message handler() worked on during
\* it arrived after its command had been sent
InstalledFirst(t) == peers[t] = {} /\ ~early[t]

(***************************************************************************)
(* C12: when a query that runs alone reads its result (line 242) with      *)
(* every message received since it was installed fully dispatched, the     *)
(* sequence it returns is the concatenation, in arrival order, of the      *)
(* arguments of the messages that arrived at its response address.         *)
(***************************************************************************)
C12_AppendsInOrder ==
    [][\A t \in Threads :
          (pc[t] = "q242" /\ pc'[t] = "idle" /\ Dispatched /\ InstalledFirst(t)) =>
              outcome'[t].value = Flatten(AtResp(t))]_vars

\* the same where no callback registered for the response address raises:
\* this much holds
C12_UnlessRaised ==
    [][\A t \in Threads :
          (pc[t] = "q242" /\ pc'[t] = "idle" /\ Dispatched /\ InstalledFirst(t)
              /\ NoRaiser(resp[t])) =>
              outcome'[t].value = Flatten(AtResp(t))]_vars

(***************************************************************************)
(* C13: a pending entry exists only while its query is outstanding: in a   *)
(* state where no thread is inside query(), every query so far having      *)
(* ended by its Event firing or by its timeout, the table of Events is     *)
(* empty and no address is the pending response address.                   *)
(***************************************************************************)
C13_NoEntryWhenIdle ==
    (/\ \A t \in Threads : ~InFlight(t)
     /\ \A q \in DOMAIN replyAddr : replyAddr[q] # None) =>
        (osc_server_events = <<>> /\ query_address = None)

(***************************************************************************)
(* C14: a query that runs alone and returns successfully, with one message *)
(* at its response address worked on during it (the message that set its   *)
(* Event, then), returns a result that holds the arguments of that         *)
(* message.                                                                *)
(***************************************************************************)
C14_SignalledResultComplete ==
    \A t \in Threads :
        (ReturnedOk(t) /\ peers[t] = {} /\ Len(AtResp(t)) = 1) =>
            ElementsOf(AtResp(t)[1].data) \subseteq ElementsOf(outcome[t].value)

\* thread t's query overlapped queries on other response addresses only
OtherAddressOverlap(t) == peers[t] # {} /\ resp[t] \notin peers[t]

(***************************************************************************)
(* C15: a query that overlapped queries on other response addresses,       *)
(* received every message after its command had been sent and returned     *)
(* successfully returns a result that is not empty and holds only          *)
(* arguments of messages at its own response address.                      *)
(***************************************************************************)
C15_OwnArgumentsOnly ==
    \A t \in Threads :
        (ReturnedOk(t) /\ OtherAddressOverlap(t) /\ ~early[t]) =>
            /\ outcome[t].value # <<>>
            /\ ElementsOf(outcome[t].value) \subseteq RepliedValues(t)

(***************************************************************************)
(* C16: push delivery precedes correlation delivery: from the moment line  *)
(* 274 has matched a message, so before its arguments are appended and     *)
(* before the Event is set, every callback that was registered for its     *)
(* address when it arrived has been called, once each and in registration  *)
(* order, and none of the calls raised; a message sets an Event only       *)
(* after line 274 matched it.                                              *)
(***************************************************************************)
C16_PushBeforeCorrelation ==
    /\ hmatched => /\ IsPrefix(hregd, invoked)
                   /\ \A i \in DOMAIN invoked : ~Raises(invoked[i])
    /\ hpc \in {"load", "extend", "store", "set"} => hmatched
    /\ hset # 0 => hmatched

\* a caller was released by a message for whose address two callbacks were
\* registered, and has returned
C16_ReleasedAfterHandlers ==
    \E t \in Threads :
        /\ ReturnedOk(t)
        /\ hset # 0 /\ hset = wev[t]
        /\ Len(hregd) = 2
        /\ invoked = hregd

\* the step is thread t's cmd() ending, called on its own or from line 227
CmdStep(t) ==
    \/ outcome'[t] # outcome[t] /\ outcome'[t].op = "cmd"
    \/ pc[t] = "q227" /\ pc'[t] # "q227"

(***************************************************************************)
(* C17: cmd() leaves the correlation state as it was: over a step in which *)
(* a cmd() ends, by returning or by raising the send error, the table of   *)
(* Events and the Events, the pending response address, the accumulated    *)
(* arguments and the registered callbacks are unchanged, and the step does *)
(* not put the caller into a wait.                                         *)
(***************************************************************************)
C17_CmdLeavesCorrelation ==
    [][\A t \in Threads :
          CmdStep(t) =>
              /\ UNCHANGED <<osc_server_events, flags, query_address, query_rv, lists,
                             handlers>>
              /\ pc'[t] # "wait"]_vars

\* a thread that had made a query called cmd(), which raised the send error,
\* while the entry of its query was still in place
C17_CmdFailedBesideEntry ==
    \E t \in Threads :
        /\ outcome[t] = Raised("cmd", SendError)
        /\ qid[t] # 0
        /\ query_address = resp[t]
        /\ resp[t] \in DOMAIN osc_server_events

(***************************************************************************)
(* C18: at most one Query object ever exists: the constructor has run at   *)
(* most once, and every call of the accessor Query() that has ended        *)
(* returned the same object.                                               *)
(***************************************************************************)
C18_OneInstance ==
    /\ constructed <= 1
    /\ \A t, u \in Getters :
          got[t] # NoInstance =>
              /\ got[t].kind = "returned"
              /\ got[u] # NoInstance => got[u] = got[t]

\* the message handler() worked on last came after thread t's query had ended
CameAfter(t) ==
    /\ haddr # None
    /\ [addr |-> haddr, data |-> hdata, tag |-> htag] \notin ElementsOf(seen[t])

(***************************************************************************)
(* C19: the sequence a successful query returned is stable: while no new   *)
(* query has been begun, the list object the caller holds has the          *)
(* contents it had when query() returned it, also after a message that     *)
(* came after the return has been dispatched.                              *)
(***************************************************************************)
C19_ReturnedListStable ==
    \A t \in Threads :
        (ReturnedOk(t) /\ LastQuery(t) /\ CameAfter(t) /\ Dispatched) =>
            lists[outcome[t].ref] = outcome[t].value

(***************************************************************************)
(* C20: the pending response address is None or a key of the table of      *)
(* Events, in every state; so the lookup of line 276, made for a message   *)
(* whose address equalled the pending response address, never raises       *)
(* KeyError.                                                               *)
(***************************************************************************)
C20_PendingAddressHasEvent ==
    /\ query_address = None \/ query_address \in DOMAIN osc_server_events
    /\ hmatched => haddr \in DOMAIN osc_server_events
    /\ hraised # "KeyError"

\* line 276 found the Event of a matched message in a table of two entries
C20_LookupAmongTwo ==
    /\ hmatched
    /\ hset # 0 /\ hset = osc_server_events[haddr]
    /\ Cardinality(DOMAIN osc_server_events) = 2

=============================================================================
